---- MODULE Spec2Model ----
(***************************************************************************)
(* The voting page of tfhe-playground (src/frontend/app/page.tsx): the     *)
(* React component Home, its state hooks, its mount effect and its event   *)
(* handlers.  Every await of an async handler is a separate step, and a    *)
(* handler works on the values its closure captured when it was invoked.   *)
(***************************************************************************)
EXTENDS Integers, Sequences, FiniteSets, TLC

(* ------------------------------ bounds --------------------------------- *)

\* zuAuthPopup calls that may be pending at once
MaxPopups == 2
\* verifyProofFrontend calls that may be in flight at once
MaxVerifyInFlight == 1
\* vote requests sent in one session
MaxVote == 2
\* sendPCDToServer calls that may be in flight at once
MaxSendInFlight == 1
\* change events of the inputs in one session
MaxInput == 1

(* ----------------------------- constants ------------------------------- *)

BASE_URL == "http://localhost:8000"
PUBLIC_KEY_PATH == <<BASE_URL, "/public-key">>
VOTE_PATH == <<BASE_URL, "/vote">>
VERIFY_PATH == "/api/verify"

\* the watermark getProof passes to zuAuthPopup
WATERMARK == "123"

\* the inputs of the page, in the order the Vote button reads them
Projects == <<"project1", "project2", "project3">>

\* largest plaintext the encryption scheme accepts
PlaintextMax == 255

Null == "null"
\* the key the key endpoint serves
ServerKey == "pk"

(* -------------------------- JavaScript numbers ------------------------- *)

NaN == [nan |-> TRUE, int |-> 0, frac |-> 0]
\* the number int + frac/10
Num(i, f) == [nan |-> FALSE, int |-> i, frac |-> f]

\* what the user may type into an input
InputStrings == {"", "1", "-1", "1.5", "300", "abc"}

\* Number(e.target.value)
Number(s) ==
  CASE s = "" -> Num(0, 0)
    [] s = "1" -> Num(1, 0)
    [] s = "-1" -> Num(-1, 0)
    [] s = "1.5" -> Num(1, 5)
    [] s = "300" -> Num(300, 0)
    [] OTHER -> NaN

isNaN(v) == v.nan

\* BigInt(number) throws a RangeError unless the number is an integer
BigIntThrows(v) == v.nan \/ v.frac # 0
BigInt(v) == v.int

(* -------------------------------- PCDs --------------------------------- *)

\* the fields getProof asks the ticket proof to reveal
fieldsToReveal == {"attendeeEmail", "eventId", "productId"}

\* the event and product of ETHBERLIN_ZUAUTH_CONFIG
ETHBERLIN_EVENT == "ETHBerlin04"

\* a serialized ZKEdDSAEventTicketPCD as Zupass may return it: a ticket of
\* the configured event that reveals the fields asked for
Pcd(id, wf, ok, signer, wm) ==
  [id |-> id, wellFormed |-> wf, proofValid |-> ok, signer |-> signer,
   watermark |-> wm, event |-> ETHBERLIN_EVENT, revealed |-> fieldsToReveal]

PcdA == Pcd(1, TRUE, TRUE, "ETHBerlin", WATERMARK)
PcdB == Pcd(2, TRUE, TRUE, "ETHBerlin", WATERMARK)
PcdForged == Pcd(3, TRUE, FALSE, "ETHBerlin", WATERMARK)
PcdOther == Pcd(4, TRUE, TRUE, "other", WATERMARK)
PcdReplay == Pcd(5, TRUE, TRUE, "ETHBerlin", "999")
PcdGarbage == Pcd(6, FALSE, FALSE, "other", "999")
\* a valid ticket of the trusted issuer for another event
PcdWrongEvent ==
  [Pcd(7, TRUE, TRUE, "ETHBerlin", WATERMARK) EXCEPT !.event = "otherEvent"]

\* the value of pcd before setPcd: no credential
Undefined == Pcd(0, FALSE, FALSE, "undefined", "undefined")

PCDs ==
  {PcdA, PcdB, PcdForged, PcdOther, PcdReplay, PcdGarbage, PcdWrongEvent}

\* result.type of zuAuthPopup
PopupResultTypes == {"pcd", "popupClosed", "popupBlocked"}

\* ZKEdDSAEventTicketPCDPackage.verify
PackageVerify(p) == p.proofValid

\* isETHBerlinPublicKey(signer)
isETHBerlinPublicKey(signer) == signer = "ETHBerlin"

(* ----------------------------- encryption ------------------------------ *)

\* encrypt(vote, key) fails with EncodingError::OutOfRange outside the domain
EncryptThrows(vote) == vote < 0 \/ vote > PlaintextMax
encrypt(vote, key) == [pt |-> vote, key |-> key]
\* Array.from(ciphertext.serialize())
serialize(ct) == [bytes |-> ct]

(* ------------------------------ messages ------------------------------- *)

ErrNoPcd == "No PCD found!"
ErrNotValid == "[ERROR Frontend] ZK ticket PCD is not valid"
ErrNotETHBerlin == "[ERROR Frontend] PCD is not signed by ETHBerlin"
ErrParsePcd == "Failed to parse PCD"
ErrSend == "Error: fetch failed"
OkFrontend == "Frontend Verified!"
OkBackend == "Backend Verified!"

\* what the vote endpoint may answer
VoteOutcomes == {"ok", "DuplicateVote", "InvalidProof", "MalformedBallot"}

\* what the verification endpoint may answer: a JSON body with a verified
\* flag, or a body that is not JSON
BackendResponses ==
  {[json |-> TRUE, verified |-> TRUE],
   [json |-> TRUE, verified |-> FALSE],
   [json |-> FALSE, verified |-> FALSE]}

(* ------------------------------- state --------------------------------- *)

VARIABLES
  verifiedFrontend,   \* useState(false)
  verifiedBackend,    \* useState(false)
  pcd,                \* useState<string>()
  publicKey,          \* useState<TfheCompactPublicKey | null>(null)
  inputValues,        \* useState({project1: 0, project2: 0, project3: 0})
  keyLoad,            \* position of the mount effect
  keyEndpointUp,      \* environment: the key endpoint is reachable
  popups,             \* pending zuAuthPopup calls
  verifyTasks,        \* verifyProofFrontend calls in flight
  voteTasks,          \* handleClick calls that sent a request, in order
  sendTasks,          \* sendPCDToServer calls in flight
  inputEvents,        \* change events handled so far
  notification,       \* the last message shown with notification.error/.success
  console,            \* messages written with console.log
  encryptKeys,        \* the keys encrypt has been called with
  uncaught,           \* the last exception or rejection nobody handled
  verifiedPcds,       \* pcds on which verifyProofFrontend succeeded
  ledger,             \* vote endpoint: the nullifiers spent
  accumulator         \* vote endpoint: the running tally of each option

vars ==
  <<verifiedFrontend, verifiedBackend, pcd, publicKey, inputValues, keyLoad,
    keyEndpointUp, popups, verifyTasks, voteTasks, sendTasks, inputEvents,
    notification, console, encryptKeys, uncaught, verifiedPcds, ledger,
    accumulator>>

\* the state hooks of Home
hooks == <<verifiedFrontend, verifiedBackend, pcd, publicKey, inputValues>>

Init ==
  /\ verifiedFrontend = FALSE
  /\ verifiedBackend = FALSE
  /\ pcd = Undefined
  /\ publicKey = Null
  /\ inputValues = [p \in {Projects[i] : i \in 1..Len(Projects)} |-> Num(0, 0)]
  /\ keyLoad = "initializeTfhe"
  /\ keyEndpointUp \in BOOLEAN
  /\ popups = 0
  /\ verifyTasks = <<>>
  /\ voteTasks = <<>>
  /\ sendTasks = <<>>
  /\ inputEvents = 0
  /\ notification = "none"
  /\ console = {}
  /\ encryptKeys = {}
  /\ uncaught = "none"
  /\ verifiedPcds = {}
  /\ ledger = {}
  /\ accumulator = [i \in 1..Len(Projects) |-> encrypt(0, ServerKey)]

\* a sequence without its i-th element
RemoveAt(s, i) == [j \in 1..(Len(s) - 1) |-> IF j < i THEN s[j] ELSE s[j + 1]]

(* --------------------------- handleInputChange ------------------------- *)

handleInputChange(s, project) ==
  LET value == Number(s) IN
  /\ inputValues' =
       IF ~isNaN(value) THEN [inputValues EXCEPT ![project] = value] ELSE inputValues
  /\ inputEvents' = inputEvents + 1
  /\ UNCHANGED <<verifiedFrontend, verifiedBackend, pcd, publicKey, keyLoad,
                 keyEndpointUp, popups, verifyTasks, voteTasks, sendTasks,
                 notification, console, encryptKeys, uncaught, verifiedPcds,
                 ledger, accumulator>>

\* onChange of one of the three inputs
InputChange ==
  /\ inputEvents < MaxInput
  /\ \E s \in InputStrings : \E i \in 1..Len(Projects) :
       handleInputChange(s, Projects[i])

(* ------------------------- mount effect (key load) --------------------- *)

\* await initializeTfhe() returns; loadPublicKey(PUBLIC_KEY_PATH) is called
InitializeTfheDone ==
  /\ keyLoad = "initializeTfhe"
  /\ keyLoad' = "loadPublicKey"
  /\ UNCHANGED <<verifiedFrontend, verifiedBackend, pcd, publicKey, inputValues,
                 keyEndpointUp, popups, verifyTasks, voteTasks, sendTasks,
                 notification, console, encryptKeys, uncaught, verifiedPcds,
                 inputEvents,
                 ledger, accumulator>>

\* loadPublicKey resolves: setPublicKey(key)
LoadPublicKeyResolves ==
  /\ keyLoad = "loadPublicKey"
  /\ keyEndpointUp
  /\ publicKey' = ServerKey
  /\ keyLoad' = "done"
  /\ UNCHANGED <<verifiedFrontend, verifiedBackend, pcd, inputValues,
                 keyEndpointUp, popups, verifyTasks, voteTasks, sendTasks,
                 notification, console, encryptKeys, uncaught, verifiedPcds,
                 inputEvents,
                 ledger, accumulator>>

\* loadPublicKey rejects: the async function of the effect ends there, and
\* nothing catches the rejection
LoadPublicKeyRejects ==
  /\ keyLoad = "loadPublicKey"
  /\ ~keyEndpointUp
  /\ keyLoad' = "failed"
  /\ uncaught' = "KeyError::Unreachable"
  /\ UNCHANGED <<verifiedFrontend, verifiedBackend, pcd, publicKey, inputValues,
                 keyEndpointUp, popups, verifyTasks, voteTasks, sendTasks,
                 notification, console, encryptKeys, verifiedPcds, inputEvents,
                 ledger, accumulator>>

\* environment: the key endpoint becomes reachable
EndpointRecovers ==
  /\ ~keyEndpointUp
  /\ keyEndpointUp' = TRUE
  /\ UNCHANGED <<verifiedFrontend, verifiedBackend, pcd, publicKey, inputValues,
                 keyLoad, popups, verifyTasks, voteTasks, sendTasks,
                 notification, console, encryptKeys, uncaught, verifiedPcds,
                 inputEvents,
                 ledger, accumulator>>

(* ------------------------------ handleClick ---------------------------- *)

\* handleClick without its test of publicKey
HasKeyAlways(key) == TRUE

\* if (publicKey)
HasKey(key) == key # Null

\* index of the first vote on which encrypt throws, 0 when none does
FirstThrow(votes) ==
  IF \E i \in 1..Len(votes) : EncryptThrows(votes[i])
  THEN CHOOSE i \in 1..Len(votes) :
         /\ EncryptThrows(votes[i])
         /\ \A j \in 1..(i - 1) : ~EncryptThrows(votes[j])
  ELSE 0

\* handleClick going on to fetch whatever encrypt threw
AllEncryptedIgnoringThrow(votes) == TRUE

\* votes.map(encrypt) returned, so that control reaches fetch
AllEncrypted(votes) == FirstThrow(votes) = 0

\* the keys of the calls of encrypt that votes.map makes
EncryptCalls(votes, key) == {key : i \in 1..Len(votes)}

\* body of the request: JSON.stringify({ votes: votesSerialized, pcd: pcd })
Body(votes, key, credential) ==
  [votes |-> [i \in 1..Len(votes) |-> serialize(encrypt(votes[i], key))],
   pcd |-> credential]

handleClick(votes) ==
  IF HasKey(publicKey)
  THEN /\ encryptKeys' = encryptKeys \cup EncryptCalls(votes, publicKey)
       /\ IF AllEncrypted(votes)
          THEN /\ console' = console \cup {"Votes: ", "Encrypting...", "Serializing..."}
               /\ voteTasks' =
                    Append(voteTasks,
                           [path |-> VOTE_PATH, body |-> Body(votes, publicKey, pcd),
                            pc |-> "fetch", outcome |-> "none"])
               /\ UNCHANGED uncaught
          ELSE /\ console' = console \cup {"Votes: ", "Encrypting..."}
               /\ uncaught' = "EncodingError::OutOfRange"
               /\ UNCHANGED voteTasks
       /\ UNCHANGED <<verifiedFrontend, verifiedBackend, pcd, publicKey, inputValues,
                      keyLoad, keyEndpointUp, popups, verifyTasks, sendTasks,
                      notification, verifiedPcds, inputEvents,
                      ledger, accumulator>>
  ELSE /\ console' = console \cup {"Votes: "}
       /\ UNCHANGED <<verifiedFrontend, verifiedBackend, pcd, publicKey, inputValues,
                      keyLoad, keyEndpointUp, popups, verifyTasks, voteTasks,
                      sendTasks, notification, encryptKeys, uncaught, verifiedPcds,
                      inputEvents,
                      ledger, accumulator>>

\* the Vote button reading project2 before project1
VoteArgsSwapped == <<inputValues.project2, inputValues.project1,
inputValues.project3>>

\* the numbers the Vote button converts, in this order
VoteArgs == <<inputValues.project1, inputValues.project2, inputValues.project3>>

\* the Vote button is not disabled
VoteEnabled == verifiedFrontend /\ ~verifiedBackend

\* onClick of the Vote button
VoteClick ==
  /\ VoteEnabled
  /\ Len(voteTasks) < MaxVote
  /\ IF \E i \in 1..Len(VoteArgs) : BigIntThrows(VoteArgs[i])
     THEN /\ uncaught' = "RangeError"
          /\ UNCHANGED <<verifiedFrontend, verifiedBackend, pcd, publicKey,
                         inputValues, keyLoad, keyEndpointUp, popups, verifyTasks,
                         voteTasks, sendTasks, notification, console, encryptKeys,
                         verifiedPcds, inputEvents,
                         ledger, accumulator>>
     ELSE handleClick([i \in 1..Len(VoteArgs) |-> BigInt(VoteArgs[i])])

\* await fetch(VOTE_PATH, ...) resolves: console.log("Server response: ", response)
VoteFetchResolves ==
  \E i \in 1..Len(voteTasks) : \E o \in VoteOutcomes :
    /\ voteTasks[i].pc = "fetch"
    /\ voteTasks' = [voteTasks EXCEPT ![i].pc = "done", ![i].outcome = o]
    /\ console' = console \cup {"Server response: "}
    /\ UNCHANGED <<verifiedFrontend, verifiedBackend, pcd, publicKey, inputValues,
                   keyLoad, keyEndpointUp, popups, verifyTasks, sendTasks,
                   notification, encryptKeys, uncaught, verifiedPcds,
                   inputEvents,
                   ledger, accumulator>>

\* await fetch(VOTE_PATH, ...) rejects: handleClick has no catch
VoteFetchRejects ==
  \E i \in 1..Len(voteTasks) :
    /\ voteTasks[i].pc = "fetch"
    /\ voteTasks' = [voteTasks EXCEPT ![i].pc = "done", ![i].outcome = "NetworkError"]
    /\ uncaught' = "fetch"
    /\ UNCHANGED <<verifiedFrontend, verifiedBackend, pcd, publicKey, inputValues,
                   keyLoad, keyEndpointUp, popups, verifyTasks, sendTasks,
                   notification, console, encryptKeys, verifiedPcds,
                   inputEvents,
                   ledger, accumulator>>

(* -------------------------------- getProof ----------------------------- *)

\* the Prove Membership button is not disabled
ProveEnabled == pcd = Undefined

\* getProof up to its await: zuAuthPopup({..., watermark: WATERMARK, ...})
getProof ==
  /\ popups' = popups + 1
  /\ UNCHANGED <<verifiedFrontend, verifiedBackend, pcd, publicKey, inputValues,
                 keyLoad, keyEndpointUp, verifyTasks, voteTasks, sendTasks,
                 notification, console, encryptKeys, uncaught, verifiedPcds,
                 inputEvents,
                 ledger, accumulator>>

\* onClick of the Prove Membership button
ProveClick ==
  /\ ProveEnabled
  /\ popups < MaxPopups
  /\ getProof

\* zuAuthPopup resolves with a pcd: setPcd(JSON.parse(result.pcdStr).pcd)
GetProofPcd ==
  \E p \in PCDs :
    /\ popups > 0
    /\ popups' = popups - 1
    /\ pcd' = p
    /\ UNCHANGED <<verifiedFrontend, verifiedBackend, publicKey, inputValues,
                   keyLoad, keyEndpointUp, verifyTasks, voteTasks, sendTasks,
                   notification, console, encryptKeys, uncaught, verifiedPcds,
                   inputEvents,
                   ledger, accumulator>>

\* zuAuthPopup resolves with another result type
GetProofOther ==
  \E t \in PopupResultTypes \ {"pcd"} :
    /\ popups > 0
    /\ popups' = popups - 1
    /\ notification' = ErrParsePcd
    /\ UNCHANGED <<verifiedFrontend, verifiedBackend, pcd, publicKey, inputValues,
                   keyLoad, keyEndpointUp, verifyTasks, voteTasks, sendTasks,
                   console, encryptKeys, uncaught, verifiedPcds, inputEvents,
                   ledger, accumulator>>

(* --------------------------- verifyProofFrontend ----------------------- *)

\* verifyProofFrontend without its test of the signer
VerifyOutcomeNoSigner(p) == IF ~PackageVerify(p) THEN "invalid" ELSE "verified"

\* what verifyProofFrontend decides on a deserialized pcd
VerifyOutcome(p) ==
  IF ~PackageVerify(p) THEN "invalid"
  ELSE IF ~isETHBerlinPublicKey(p.signer) THEN "untrusted"
  ELSE "verified"

\* verifyProofFrontend up to its first await, on the pcd of its closure
verifyProofFrontend ==
  IF pcd = Undefined
  THEN /\ notification' = ErrNoPcd
       /\ UNCHANGED <<verifiedFrontend, verifiedBackend, pcd, publicKey,
                      inputValues, keyLoad, keyEndpointUp, popups, verifyTasks,
                      voteTasks, sendTasks, console, encryptKeys, uncaught,
                      verifiedPcds, inputEvents,
                      ledger, accumulator>>
  ELSE /\ verifyTasks' = Append(verifyTasks, [pcd |-> pcd, pc |-> "deserialize"])
       /\ UNCHANGED <<verifiedFrontend, verifiedBackend, pcd, publicKey,
                      inputValues, keyLoad, keyEndpointUp, popups, voteTasks,
                      sendTasks, notification, console, encryptKeys, uncaught,
                      verifiedPcds, inputEvents,
                      ledger, accumulator>>

\* the Verify (frontend) button is not disabled
VerifyEnabled == pcd # Undefined /\ ~verifiedFrontend

\* onClick of the Verify (frontend) button
VerifyClick ==
  /\ VerifyEnabled
  /\ Len(verifyTasks) < MaxVerifyInFlight
  /\ verifyProofFrontend

\* await ZKEdDSAEventTicketPCDPackage.deserialize(pcd) returns or throws
VerifyDeserialized ==
  \E i \in 1..Len(verifyTasks) :
    /\ verifyTasks[i].pc = "deserialize"
    /\ IF verifyTasks[i].pcd.wellFormed
       THEN /\ verifyTasks' = [verifyTasks EXCEPT ![i].pc = "verify"]
            /\ UNCHANGED uncaught
       ELSE /\ verifyTasks' = RemoveAt(verifyTasks, i)
            /\ uncaught' = "deserialize"
    /\ UNCHANGED <<verifiedFrontend, verifiedBackend, pcd, publicKey, inputValues,
                   keyLoad, keyEndpointUp, popups, voteTasks, sendTasks,
                   notification, console, encryptKeys, verifiedPcds,
                   inputEvents,
                   ledger, accumulator>>

\* await ZKEdDSAEventTicketPCDPackage.verify(deserializedPCD) returns
VerifyVerified ==
  \E i \in 1..Len(verifyTasks) :
    LET outcome == VerifyOutcome(verifyTasks[i].pcd) IN
    /\ verifyTasks[i].pc = "verify"
    /\ verifyTasks' = RemoveAt(verifyTasks, i)
    /\ CASE outcome = "invalid" ->
              /\ notification' = ErrNotValid
              /\ UNCHANGED <<verifiedFrontend, verifiedPcds>>
         [] outcome = "untrusted" ->
              /\ notification' = ErrNotETHBerlin
              /\ UNCHANGED <<verifiedFrontend, verifiedPcds>>
         [] OTHER ->
              /\ verifiedFrontend' = TRUE
              /\ notification' = OkFrontend
              /\ verifiedPcds' = verifiedPcds \cup {verifyTasks[i].pcd}
    /\ UNCHANGED <<verifiedBackend, pcd, publicKey, inputValues, keyLoad,
                   keyEndpointUp, popups, voteTasks, sendTasks, console,
                   encryptKeys, uncaught, inputEvents,
                   ledger, accumulator>>

(* --------------------------------- Reset ------------------------------- *)

\* a Reset that also forgets the public key
ResetClickClearsKey ==
  /\ verifiedFrontend' = FALSE
  /\ publicKey' = Null
  /\ UNCHANGED <<verifiedBackend, pcd, inputValues, keyLoad,
                 keyEndpointUp, popups, verifyTasks, voteTasks, sendTasks,
                 notification, console, encryptKeys, uncaught, verifiedPcds,
                 inputEvents,
                 ledger, accumulator>>

\* a Reset that also forgets the credential
ResetClickClearsPcd ==
  /\ verifiedFrontend' = FALSE
  /\ pcd' = Undefined
  /\ UNCHANGED <<verifiedBackend, publicKey, inputValues, keyLoad,
                 keyEndpointUp, popups, verifyTasks, voteTasks, sendTasks,
                 notification, console, encryptKeys, uncaught, verifiedPcds,
                 inputEvents,
                 ledger, accumulator>>

\* onClick of the Reset button: setVerifiedFrontend(false)
ResetClick ==
  /\ verifiedFrontend' = FALSE
  /\ UNCHANGED <<verifiedBackend, pcd, publicKey, inputValues, keyLoad,
                 keyEndpointUp, popups, verifyTasks, voteTasks, sendTasks,
                 notification, console, encryptKeys, uncaught, verifiedPcds,
                 inputEvents,
                 ledger, accumulator>>

(* ----------------------------- sendPCDToServer ------------------------- *)

\* sendPCDToServer up to its await: fetch("/api/verify", {body: {pcd}})
sendPCDToServer ==
  /\ sendTasks' =
       Append(sendTasks,
              [path |-> VERIFY_PATH, pcd |-> pcd, pc |-> "fetch",
               response |-> [json |-> FALSE, verified |-> FALSE]])
  /\ console' = console \cup {"Sending PCD to server"}
  /\ UNCHANGED <<verifiedFrontend, verifiedBackend, pcd, publicKey, inputValues,
                 keyLoad, keyEndpointUp, popups, verifyTasks, voteTasks,
                 notification, encryptKeys, uncaught, verifiedPcds,
                 inputEvents,
                 ledger, accumulator>>

\* fetch rejects: catch (e) { notification.error(...); return }
SendFetchRejects ==
  \E i \in 1..Len(sendTasks) :
    /\ sendTasks[i].pc = "fetch"
    /\ sendTasks' = RemoveAt(sendTasks, i)
    /\ notification' = ErrSend
    /\ UNCHANGED <<verifiedFrontend, verifiedBackend, pcd, publicKey, inputValues,
                   keyLoad, keyEndpointUp, popups, verifyTasks, voteTasks,
                   console, encryptKeys, uncaught, verifiedPcds, inputEvents,
                   ledger, accumulator>>

\* fetch resolves: response.json() is called
SendFetchResolves ==
  \E i \in 1..Len(sendTasks) : \E r \in BackendResponses :
    /\ sendTasks[i].pc = "fetch"
    /\ sendTasks' = [sendTasks EXCEPT ![i].pc = "json", ![i].response = r]
    /\ UNCHANGED <<verifiedFrontend, verifiedBackend, pcd, publicKey, inputValues,
                   keyLoad, keyEndpointUp, popups, verifyTasks, voteTasks,
                   notification, console, encryptKeys, uncaught, verifiedPcds,
                   inputEvents,
                   ledger, accumulator>>

\* what sendPCDToServer does with the parsed response
MarksVerified(data) == TRUE

\* await response.json() returns or throws
SendJson ==
  \E i \in 1..Len(sendTasks) :
    LET data == sendTasks[i].response IN
    /\ sendTasks[i].pc = "json"
    /\ sendTasks' = RemoveAt(sendTasks, i)
    /\ IF data.json
       THEN /\ IF MarksVerified(data)
               THEN /\ verifiedBackend' = TRUE
                    /\ notification' = OkBackend
               ELSE UNCHANGED <<verifiedBackend, notification>>
            /\ UNCHANGED uncaught
       ELSE /\ uncaught' = "SyntaxError"
            /\ UNCHANGED <<verifiedBackend, notification>>
    /\ UNCHANGED <<verifiedFrontend, pcd, publicKey, inputValues, keyLoad,
                   keyEndpointUp, popups, verifyTasks, voteTasks, console,
                   encryptKeys, verifiedPcds, inputEvents,
                   ledger, accumulator>>

(* ---------------------------- specifications --------------------------- *)

\* the page with one more button, bound to sendPCDToServer
NextWithSendButton ==
  \/ InputChange
  \/ InitializeTfheDone
  \/ LoadPublicKeyResolves
  \/ LoadPublicKeyRejects
  \/ EndpointRecovers
  \/ VoteClick
  \/ VoteFetchResolves
  \/ VoteFetchRejects
  \/ ProveClick
  \/ GetProofPcd
  \/ GetProofOther
  \/ VerifyClick
  \/ VerifyDeserialized
  \/ VerifyVerified
  \/ ResetClick
  \/ (Len(sendTasks) < MaxSendInFlight /\ sendPCDToServer)
  \/ SendFetchRejects
  \/ SendFetchResolves
  \/ SendJson

\* the page as a user drives it: the buttons and inputs that are rendered,
\* the mount effect, and the completions of the pending calls
Next ==
  \/ InputChange
  \/ InitializeTfheDone
  \/ LoadPublicKeyResolves
  \/ LoadPublicKeyRejects
  \/ EndpointRecovers
  \/ VoteClick
  \/ VoteFetchResolves
  \/ VoteFetchRejects
  \/ ProveClick
  \/ GetProofPcd
  \/ GetProofOther
  \/ VerifyClick
  \/ VerifyDeserialized
  \/ VerifyVerified
  \/ ResetClick

Spec == Init /\ [][Next]_vars

\* the page with the scheduling of the browser: the mount effect runs, and
\* every pending promise is settled and its continuation run
FairSpec ==
  /\ Spec
  /\ WF_vars(InitializeTfheDone)
  /\ WF_vars(LoadPublicKeyResolves)
  /\ WF_vars(LoadPublicKeyRejects)
  /\ WF_vars(VoteFetchResolves \/ VoteFetchRejects)
  /\ WF_vars(GetProofPcd \/ GetProofOther)
  /\ WF_vars(VerifyDeserialized)
  /\ WF_vars(VerifyVerified)

\* a direct call of verifyProofFrontend, whatever the buttons allow
CallVerifyProofFrontend ==
  /\ Len(verifyTasks) < MaxVerifyInFlight
  /\ verifyProofFrontend

\* a direct call of sendPCDToServer, which no button is bound to
CallSendPCDToServer ==
  /\ Len(sendTasks) < MaxSendInFlight
  /\ sendPCDToServer

\* the credential handlers called as functions, as a test of them would,
\* beside the mount effect; no input is changed and no vote is sent
NextCalls ==
  \/ InitializeTfheDone
  \/ LoadPublicKeyResolves
  \/ LoadPublicKeyRejects
  \/ EndpointRecovers
  \/ ProveClick
  \/ GetProofPcd
  \/ GetProofOther
  \/ CallVerifyProofFrontend
  \/ VerifyDeserialized
  \/ VerifyVerified
  \/ ResetClick
  \/ CallSendPCDToServer
  \/ SendFetchRejects
  \/ SendFetchResolves
  \/ SendJson

SpecCalls == Init /\ [][NextCalls]_vars

(* -------------------------------- claims ------------------------------- *)

\* C1: once the public-key load at mount has failed, publicKey is null,
\* encrypt has never been called and no request has gone to the vote
\* endpoint, whatever the user has done.
KeyFailureBlocksVote ==
  keyLoad = "failed" => publicKey = Null /\ encryptKeys = {} /\ voteTasks = <<>>

\* C1 witness: the key load failed, the proof was verified and Vote was clicked
KeyFailureVoteClicked ==
  keyLoad = "failed" /\ verifiedFrontend /\ "Votes: " \in console

\* C2 (as claimed): the pcd in the body of every vote request is one on which
\* verifyProofFrontend succeeded.
VoteCarriesVerifiedPcd ==
  \A i \in 1..Len(voteTasks) : voteTasks[i].body.pcd \in verifiedPcds

\* the step is the end of the verifyProofFrontend call i
VerifyEnds(i) ==
  /\ verifyTasks[i].pc = "verify"
  /\ verifyTasks' = RemoveAt(verifyTasks, i)

WatermarkChecked ==
  /\ \A p \in verifiedPcds : p.watermark = WATERMARK
  /\ \A i \in 1..Len(voteTasks) : voteTasks[i].body.pcd.watermark = WATERMARK

\* C5 (as claimed): verifiedBackend becomes true only at the end of a
\* sendPCDToServer call whose response reports verified = true.
BackendVerifiedOnlyWhenReported ==
  [][(~verifiedBackend /\ verifiedBackend') =>
       \E i \in 1..Len(sendTasks) :
         /\ sendTasks[i].pc = "json"
         /\ sendTasks' = RemoveAt(sendTasks, i)
         /\ sendTasks[i].response.json
         /\ sendTasks[i].response.verified
    ]_vars

\* the number is outside the plaintext domain 0..PlaintextMax
OutOfDomain(v) == v.nan \/ v.frac # 0 \/ v.int < 0 \/ v.int > PlaintextMax

VoteErrorMessage(o) ==
  CASE o = "DuplicateVote" -> "VoteError::DuplicateVote"
    [] o = "InvalidProof" -> "VoteError::InvalidProof"
    [] o = "MalformedBallot" -> "VoteError::MalformedBallot"
    [] OTHER -> "VoteError::Network"

\* C7 (as claimed): when a vote request ends in a failure (a rejection by the
\* endpoint or a network error), the page shows the error of that failure.
VoteFailureReported ==
  [][\A i \in 1..Len(voteTasks) :
       (/\ voteTasks[i].pc = "fetch"
        /\ Len(voteTasks') = Len(voteTasks)
        /\ voteTasks'[i].pc = "done"
        /\ voteTasks'[i].outcome # "ok") =>
         notification' = VoteErrorMessage(voteTasks'[i].outcome)
    ]_vars

\* C8: a vote request carries three ciphertexts, the encryptions under
\* publicKey of the values inputValues holds for project1, project2 and
\* project3 in this order, and the pcd of the page, which is defined.
BallotMatchesInputs ==
  [][Len(voteTasks') > Len(voteTasks) =>
       LET body == voteTasks'[Len(voteTasks')].body IN
       /\ Len(body.votes) = 3
       /\ \A j \in 1..3 :
            /\ ~OutOfDomain(inputValues[Projects[j]])
            /\ body.votes[j] =
                 serialize(encrypt(inputValues[Projects[j]].int, publicKey))
       /\ publicKey # Null
       /\ body.pcd = pcd
       /\ body.pcd # Undefined
    ]_vars

\* C8 witness: a request was sent with a vote of 1 for project2 only
BallotForProject2 ==
  \E i \in 1..Len(voteTasks) :
    /\ voteTasks[i].body.votes[2].bytes.pt = 1
    /\ voteTasks[i].body.votes[1].bytes.pt = 0

\* C10 (as claimed): after the key load has failed, once the key endpoint is
\* reachable the page eventually holds a public key.
KeyFailureRecoverable ==
  []((keyLoad = "failed" /\ keyEndpointUp) => <>(publicKey # Null))

\* the error the page would show for an unreachable key endpoint
ErrKeyUnreachable == "KeyError::Unreachable"

\* C11 (as claimed): when loadPublicKey fails because the key endpoint is
\* unreachable, the page shows the key-unreachable error.
KeyFailureShown ==
  [][(keyLoad = "loadPublicKey" /\ keyLoad' = "failed") =>
       notification' = ErrKeyUnreachable
    ]_vars

(* ----------------------------- vote endpoint --------------------------- *)

\* the identifier the endpoint derives from a credential
Nullifier(p) == p.id

\* the authoritative verification of a credential by the endpoint
ServerVerify(p) ==
  /\ p.wellFormed
  /\ p.proofValid
  /\ isETHBerlinPublicKey(p.signer)
  /\ p.event = ETHBERLIN_EVENT
  /\ p.watermark = WATERMARK

\* trySpend without its test of the ledger
AlreadySpentNever(spent, n) == FALSE

\* trySpend(nullifier) fails with AlreadySpent
AlreadySpent(spent, n) == n \in spent

\* homomorphicAdd(a, b), for ciphertexts under one key
homomorphicAdd(a, b) == [pt |-> a.pt + b.pt, key |-> a.key]

\* the result of submit(proof, ballot) in the state of the endpoint
SubmitOutcome(body) ==
  IF ~ServerVerify(body.pcd) THEN "InvalidProof"
  ELSE IF AlreadySpent(ledger, Nullifier(body.pcd)) THEN "DuplicateVote"
  ELSE IF Len(body.votes) # Len(Projects) THEN "MalformedBallot"
  ELSE "ok"

\* the endpoint handles the request of handleClick call i in one atomic
\* step, and the page logs its answer
ServerAnswers ==
  \E i \in 1..Len(voteTasks) :
    LET body == voteTasks[i].body
        o == SubmitOutcome(body) IN
    /\ voteTasks[i].pc = "fetch"
    /\ voteTasks' = [voteTasks EXCEPT ![i].pc = "done", ![i].outcome = o]
    /\ IF o = "ok"
       THEN /\ ledger' = ledger \cup {Nullifier(body.pcd)}
            /\ accumulator' =
                 [j \in 1..Len(Projects) |->
                    homomorphicAdd(accumulator[j], body.votes[j].bytes)]
       ELSE UNCHANGED <<ledger, accumulator>>
    /\ console' = console \cup {"Server response: "}
    /\ UNCHANGED <<verifiedFrontend, verifiedBackend, pcd, publicKey, inputValues,
                   keyLoad, keyEndpointUp, popups, verifyTasks, sendTasks,
                   notification, encryptKeys, uncaught, verifiedPcds,
                   inputEvents>>

\* the page together with the vote endpoint
NextServer ==
  \/ InputChange
  \/ InitializeTfheDone
  \/ LoadPublicKeyResolves
  \/ LoadPublicKeyRejects
  \/ EndpointRecovers
  \/ VoteClick
  \/ ServerAnswers
  \/ VoteFetchRejects
  \/ ProveClick
  \/ GetProofPcd
  \/ GetProofOther
  \/ VerifyClick
  \/ VerifyDeserialized
  \/ VerifyVerified
  \/ ResetClick

SpecServer == Init /\ [][NextServer]_vars

\* the requests the endpoint admitted
Admitted == {i \in 1..Len(voteTasks) : voteTasks[i].outcome = "ok"}

\* the sum of the votes for option j in the requests of the set
RECURSIVE SumVotes(_, _)
SumVotes(requests, j) ==
  IF requests = {} THEN 0
  ELSE LET i == CHOOSE x \in requests : TRUE IN
       voteTasks[i].body.votes[j].bytes.pt + SumVotes(requests \ {i}, j)

\* the requests with the pcd of request i that the endpoint answered
AnsweredWith(i) ==
  {k \in 1..Len(voteTasks) :
     /\ voteTasks[k].body.pcd = voteTasks[i].body.pcd
     /\ voteTasks[k].pc = "done"
     /\ voteTasks[k].outcome # "NetworkError"}

\* C12: of the requests handleClick sent with one pcd, in whatever order
\* they reach the endpoint, exactly one of those answered is admitted when
\* the pcd passes the endpoint's verification (none otherwise) and every
\* other one gets DuplicateVote; the accumulator holds the sum of the
\* admitted ballots only, and the ledger their nullifiers.
OneBallotPerNullifier ==
  /\ \A i \in 1..Len(voteTasks) :
       LET same == AnsweredWith(i) IN
       IF ServerVerify(voteTasks[i].body.pcd)
       THEN same # {} =>
              /\ Cardinality(same \cap Admitted) = 1
              /\ \A k \in same \ Admitted : voteTasks[k].outcome = "DuplicateVote"
       ELSE same \cap Admitted = {}
  /\ \A j \in 1..Len(Projects) : accumulator[j].pt = SumVotes(Admitted, j)
  /\ ledger = {Nullifier(voteTasks[i].body.pcd) : i \in Admitted}

\* C12 witness: two ballots with one pcd, the first with a vote of 1, were
\* answered: one admitted, one refused as a duplicate
DuplicateBallotRefused ==
  /\ Len(voteTasks) = 2
  /\ voteTasks[1].body.pcd = voteTasks[2].body.pcd
  /\ {voteTasks[1].outcome, voteTasks[2].outcome} = {"ok", "DuplicateVote"}
  /\ voteTasks[1].body.votes[1].bytes.pt = 1

\* C13 (as claimed): no pcd of a ticket outside the eligibility set of the
\* election (another event or product) is verified by the page.
OnlyEligibleVerified ==
  \A p \in verifiedPcds : p.event = ETHBERLIN_EVENT

\* C14 (as claimed): the credential sent with a vote does not disclose the
\* attendee email of the voter.
VoteHidesAttendeeEmail ==
  \A i \in 1..Len(voteTasks) : "attendeeEmail" \notin voteTasks[i].body.pcd.revealed

\* C15: once publicKey is set no step replaces or clears it and the mount
\* effect makes no further call of loadPublicKey; every ciphertext of every
\* vote request, and every call of encrypt, is under that key.
KeyCachedOnce ==
  [][/\ publicKey # Null =>
          /\ publicKey' = publicKey
          /\ keyLoad = "done"
          /\ keyLoad' = keyLoad
     /\ encryptKeys' \subseteq {publicKey'}
     /\ \A i \in 1..Len(voteTasks') : \A j \in 1..Len(voteTasks'[i].body.votes) :
          voteTasks'[i].body.votes[j].bytes.key = publicKey'
    ]_vars

\* C15 witness: two requests were sent in the session, and after them the
\* page was reset
TwoVotesThenReset ==
  /\ publicKey # Null
  /\ Len(voteTasks) = 2
  /\ ~verifiedFrontend

\* C16 (as claimed): no two vote requests of a session carry the same pcd.
PcdSentOnce ==
  \A i, j \in 1..Len(voteTasks) :
    i # j => voteTasks[i].body.pcd # voteTasks[j].body.pcd

\* C17 (as claimed): once pcd is set, no step changes it.
PcdImmutable ==
  [][pcd # Undefined => pcd' = pcd]_vars

\* C18: the step that takes verifiedFrontend from true to false changes
\* nothing else, and while verifiedFrontend is false the Vote button is
\* disabled and no vote request is sent; verifiedFrontend becomes true again
\* only at the end of a verifyProofFrontend call that succeeds.
ResetOnlyUnverifies ==
  [][/\ (verifiedFrontend /\ ~verifiedFrontend') =>
          UNCHANGED <<verifiedBackend, pcd, publicKey, inputValues, keyLoad,
                      keyEndpointUp, popups, verifyTasks, voteTasks, sendTasks,
                      inputEvents, notification, console, encryptKeys, uncaught,
                      verifiedPcds, ledger, accumulator>>
     /\ ~verifiedFrontend =>
          /\ ~VoteEnabled
          /\ Len(voteTasks') = Len(voteTasks)
     /\ (~verifiedFrontend /\ verifiedFrontend') =>
          \E i \in 1..Len(verifyTasks) :
            /\ VerifyEnds(i)
            /\ VerifyOutcome(verifyTasks[i].pcd) = "verified"
    ]_vars

\* C18 witness: the page was reset after a verification and a vote, and
\* holds its credential, its key and the typed vote
ResetAfterVote ==
  /\ ~verifiedFrontend
  /\ verifiedPcds # {}
  /\ pcd # Undefined
  /\ publicKey # Null
  /\ Len(voteTasks) = 1
  /\ inputValues.project1 = Num(1, 0)

\* C19: in the page as the user drives it verifiedBackend is false and no
\* request goes to the verification endpoint, so that the Vote button is
\* enabled whenever verifiedFrontend holds.
BackendNeverVerified ==
  /\ ~verifiedBackend
  /\ sendTasks = <<>>
  /\ notification # OkBackend
  /\ VoteEnabled = verifiedFrontend

\* C19 witness: a vote was sent and answered, and Vote is still enabled
VoteStillEnabled ==
  /\ VoteEnabled
  /\ Len(voteTasks) = 1
  /\ voteTasks[1].outcome = "ok"

====
